---- MODULE Spec2Model ----
(***************************************************************************)
(* The PortfolioStressTester component: its React state, its handlers, the *)
(* effect that runs calculateStressTest, and the recovery timeline built   *)
(* at render time.                                                         *)
(*                                                                         *)
(* Numbers.  A JavaScript number is modelled as a record                   *)
(*   [k |-> "fin", n, d]  the finite value n/d (d > 0, lowest terms),      *)
(*   [k |-> "inf", n, d]  +Infinity (n = 1) or -Infinity (n = -1),         *)
(*   [k |-> "nan", n, d]  NaN.                                             *)
(* Finite arithmetic is exact: the rounding of IEEE doubles is left out,   *)
(* so an equality of two finite results is an equality up to the rounding  *)
(* error of the doubles.  -0 is not told apart from 0.  Math.pow is the    *)
(* one result kept to a fixed number of decimals (see MathPow).            *)
(***************************************************************************)
EXTENDS Integers, Sequences, FiniteSets, TLC

VARIABLES
    portfolio,         \* useState: the holdings, in order
    portfolioValue,    \* useState: the base value
    selectedScenario,  \* useState: the scenario key
    stressResults,     \* useState: the per-asset results
    summaryResults,    \* useState: the summary
    effectPending,     \* the useEffect is scheduled and has not run yet
    thrown,            \* the error that ended the component ("none": none)
    changes            \* number of input events handled so far

vars == <<portfolio, portfolioValue, selectedScenario, stressResults,
          summaryResults, effectPending, thrown, changes>>

----------------------------------------------------------------------------
(* JavaScript numbers *)

Abs(x) == IF x < 0 THEN -x ELSE x

Sign(x) == IF x < 0 THEN -1 ELSE IF x > 0 THEN 1 ELSE 0

RECURSIVE GCD(_, _)
GCD(a, b) == IF b = 0 THEN a ELSE GCD(b, a % b)

NaN == [k |-> "nan", n |-> 0, d |-> 1]

Infinity(s) == [k |-> "inf", n |-> s, d |-> 1]

\* n/d with the common divisor g taken out and the sign in the numerator.
Reduced(n, d, g) ==
    [k |-> "fin", n |-> Sign(d) * (n \div g), d |-> Abs(d) \div g]

\* The finite number n/d, in lowest terms with a positive denominator.
Fin(n, d) == Reduced(n, d, GCD(Abs(n), Abs(d)))

Num(i) == [k |-> "fin", n |-> i, d |-> 1]

\* A literal with one decimal, given in tenths: Dec(-370) is -37.0.
Dec(tenths) == Fin(tenths, 10)

Zero == [k |-> "fin", n |-> 0, d |-> 1]

One == [k |-> "fin", n |-> 1, d |-> 1]

Hundred == [k |-> "fin", n |-> 100, d |-> 1]

IsNaN(a) == a.k = "nan"

IsFinite(a) == a.k = "fin"

Neg(a) == IF IsNaN(a) THEN NaN ELSE [a EXCEPT !.n = -a.n]

\* a + b for finite a and b, g the common divisor of their denominators.
AddFin(a, b, g) ==
    Fin(a.n * (b.d \div g) + b.n * (a.d \div g), a.d * (b.d \div g))

\* a + b
Add(a, b) ==
    IF IsNaN(a) \/ IsNaN(b) THEN NaN
    ELSE IF a.k = "inf" /\ b.k = "inf" THEN (IF a.n = b.n THEN a ELSE NaN)
    ELSE IF a.k = "inf" THEN a
    ELSE IF b.k = "inf" THEN b
    ELSE AddFin(a, b, GCD(a.d, b.d))

\* a - b
Sub(a, b) == Add(a, Neg(b))

\* a * b for finite a and b, the common divisors g1 of a.n and b.d and g2 of
\* b.n and a.d taken out before multiplying.
MulFin(a, b, g1, g2) ==
    Fin((a.n \div g1) * (b.n \div g2), (a.d \div g2) * (b.d \div g1))

\* a * b
Mul(a, b) ==
    IF IsNaN(a) \/ IsNaN(b) THEN NaN
    ELSE IF a.k = "inf" \/ b.k = "inf"
         THEN (IF a.n = 0 \/ b.n = 0 THEN NaN ELSE Infinity(Sign(a.n) * Sign(b.n)))
    ELSE MulFin(a, b, GCD(Abs(a.n), b.d), GCD(Abs(b.n), a.d))

\* a / b
Div(a, b) ==
    IF IsNaN(a) \/ IsNaN(b) THEN NaN
    ELSE IF a.k = "inf"
         THEN (IF b.k = "inf" THEN NaN
               ELSE Infinity(a.n * (IF b.n < 0 THEN -1 ELSE 1)))
    ELSE IF b.k = "inf" THEN Zero
    ELSE IF b.n = 0 THEN (IF a.n = 0 THEN NaN ELSE Infinity(Sign(a.n)))
    ELSE Mul(a, Fin(b.d, b.n))

\* a < b
Lt(a, b) ==
    IF IsNaN(a) \/ IsNaN(b) THEN FALSE
    ELSE IF a.k = "inf" THEN a.n = -1 /\ ~(b.k = "inf" /\ b.n = -1)
    ELSE IF b.k = "inf" THEN b.n = 1
    ELSE LET qa == a.n \div a.d
             qb == b.n \div b.d
         IN  \/ qa < qb
             \/ qa = qb /\ (a.n % a.d) * b.d < (b.n % b.d) * a.d

\* a > b
Gt(a, b) == Lt(b, a)

\* a === b
StrictEq(a, b) == ~IsNaN(a) /\ ~IsNaN(b) /\ a = b

\* a >= b
Ge(a, b) == Gt(a, b) \/ StrictEq(a, b)

----------------------------------------------------------------------------
(* The scenario catalog *)

DefaultAssets ==
    <<"US Large Cap Equity", "US Small Cap Equity", "International Equity",
      "Bonds", "REITs">>

ScenarioKeys ==
    {"2008_crisis", "2020_covid", "dotcom_crash", "interest_rate_shock",
     "inflation_shock"}

\* The factor maps of stressScenarios; a factor is written in tenths of a
\* percent (-370 is the source's -37.0).
stressScenarios ==
    [key \in ScenarioKeys |->
        [factors |->
            [a \in {"US Large Cap Equity", "US Small Cap Equity",
                    "International Equity", "Bonds", "REITs"} |->
                LET i == CHOOSE x \in 1..5 : DefaultAssets[x] = a
                IN  IF key = "2008_crisis" THEN <<-370, -338, -434, 52, -377>>[i]
                    ELSE IF key = "2020_covid"
                         THEN <<-196, -306, -234, 87, -202>>[i]
                    ELSE IF key = "dotcom_crash"
                         THEN <<-491, -228, -455, 211, 139>>[i]
                    ELSE IF key = "interest_rate_shock"
                         THEN <<-150, -200, -180, -120, -250>>[i]
                    ELSE <<-200, -250, -220, -150, 100>>[i]]]]

\* Whether scenario.factors has the asset as a key of its own.
HasFactor(key, asset) == asset \in DOMAIN stressScenarios[key].factors

\* The property names among the holdings' asset names that a factor map, an
\* object literal, inherits from Object.prototype; each reads a function.
InheritedKeys == {"constructor"}

\* scenario.factors[asset.asset] for a key the map has.
FactorOf(key, asset) == Dec(stressScenarios[key].factors[asset])

----------------------------------------------------------------------------
(* calculateStressTest *)

NoError == "none"

\* x || 0: the number x unless it is falsy (0 or NaN).
OrZero(x) == IF IsNaN(x) \/ x = Zero THEN Zero ELSE x

\* scenario.factors[asset.asset] || 0.  A key of the map reads its number; an
\* inherited one reads a function, which is truthy and which every arithmetic
\* use turns into NaN; any other key reads undefined, which is falsy.
StressFactor(key, asset) ==
    IF HasFactor(key, asset) THEN OrZero(FactorOf(key, asset))
    ELSE IF asset \in InheritedKeys THEN NaN
    ELSE Zero

\* portfolioValue * (asset.allocation / 100)
AssetValue(value, allocation) == Mul(value, Div(allocation, Hundred))

\* StressedValue without the 1 +: the change taken for the stressed value.
StressedValueOfFactor(assetValue, stressFactor) ==
    Mul(assetValue, Div(stressFactor, Hundred))

\* assetValue * (1 + stressFactor / 100)
StressedValue(assetValue, stressFactor) ==
    Mul(assetValue, Add(One, Div(stressFactor, Hundred)))

\* stressedValue - assetValue
Loss(stressedValue, assetValue) == Sub(stressedValue, assetValue)

\* UpdateWorst with <= for <, so that the later of two tied holdings wins.
UpdateWorstLatest(worstAsset, name, loss) ==
    IF Lt(loss, worstAsset.loss) \/ StrictEq(loss, worstAsset.loss)
    THEN [name |-> name, loss |-> loss]
    ELSE worstAsset

\* if (loss < worstAsset.loss) worstAsset = {name, loss}
UpdateWorst(worstAsset, name, loss) ==
    IF Lt(loss, worstAsset.loss) THEN [name |-> name, loss |-> loss]
    ELSE worstAsset

\* UpdateBest with the first holding always taken, so that the least bad
\* holding is reported when all lose.
UpdateBestLeastBad(bestAsset, name, loss) ==
    IF bestAsset.name = "" \/ Gt(loss, bestAsset.gain)
    THEN [name |-> name, gain |-> loss]
    ELSE bestAsset

\* if (loss > bestAsset.gain) bestAsset = {name, gain: loss}
UpdateBest(bestAsset, name, loss) ==
    IF Gt(loss, bestAsset.gain) THEN [name |-> name, gain |-> loss]
    ELSE bestAsset

\* (loss / portfolioValue) * 100
ContributionToLoss(loss, value) == Mul(Div(loss, value), Hundred)

\* (totalLoss / portfolioValue) * 100
TotalLossPercent(totalLoss, value) == Mul(Div(totalLoss, value), Hundred)

\* FinalValue without the base value.
FinalValueOfLoss(value, totalLoss) == totalLoss

\* portfolioValue + totalLoss
FinalValue(value, totalLoss) == Add(value, totalLoss)

EmptyWorst == [name |-> "", loss |-> Zero]

EmptyBest == [name |-> "", gain |-> Zero]

\* The locals of calculateStressTest before the loop.
LoopStart ==
    [totalLoss |-> Zero, worstAsset |-> EmptyWorst, bestAsset |-> EmptyBest,
     results |-> <<>>, thrown |-> NoError]

\* The object pushed to results.
ResultRow(asset, stressFactor, value, assetValue, stressedValue, loss) ==
    [asset |-> asset.asset,
     allocation |-> asset.allocation,
     originalValue |-> assetValue,
     stressedValue |-> stressedValue,
     dollarChange |-> loss,
     percentChange |-> stressFactor,
     contributionToLoss |-> ContributionToLoss(loss, value)]

\* The callback's constants, computed in the order of the source:
\* stressedValue from assetValue, then loss from both.
RowFromStressed(asset, stressFactor, value, assetValue, stressedValue) ==
    ResultRow(asset, stressFactor, value, assetValue, stressedValue,
              Loss(stressedValue, assetValue))

RowFromAsset(asset, stressFactor, value, assetValue) ==
    RowFromStressed(asset, stressFactor, value, assetValue,
                    StressedValue(assetValue, stressFactor))

Row(asset, stressFactor, value) ==
    RowFromAsset(asset, stressFactor, value,
                 AssetValue(value, asset.allocation))

\* totalLoss += loss, the two comparisons, results.push(row).
Accumulate(acc, row) ==
    [totalLoss |-> Add(acc.totalLoss, row.dollarChange),
     worstAsset |-> UpdateWorst(acc.worstAsset, row.asset, row.dollarChange),
     bestAsset |-> UpdateBest(acc.bestAsset, row.asset, row.dollarChange),
     results |-> Append(acc.results, row),
     thrown |-> NoError]

\* One pass of the forEach callback.  With scenario undefined (a key that is
\* not in the catalog), scenario.factors throws a TypeError.
ForEachBody(acc, asset, key, value) ==
    IF key \notin DOMAIN stressScenarios
    THEN [acc EXCEPT !.thrown = "TypeError"]
    ELSE Accumulate(acc, Row(asset, StressFactor(key, asset.asset), value))

\* portfolio.forEach(...), from holding i on; an exception ends the loop.
RECURSIVE ForEach(_, _, _, _, _)
ForEach(i, acc, holdings, key, value) ==
    IF i > Len(holdings) \/ acc.thrown # NoError THEN acc
    ELSE ForEach(i + 1, ForEachBody(acc, holdings[i], key, value),
                 holdings, key, value)

\* The summary object handed to setSummaryResults.
Summary(acc, value) ==
    [totalLoss |-> acc.totalLoss,
     totalLossPercent |-> TotalLossPercent(acc.totalLoss, value),
     worstAsset |-> acc.worstAsset,
     bestAsset |-> acc.bestAsset,
     finalValue |-> FinalValue(value, acc.totalLoss)]

\* calculateStressTest on the state it reads: what it throws, and the values
\* it hands to setStressResults and setSummaryResults when it does not throw.
Outcome(acc, value) ==
    [thrown |-> acc.thrown, results |-> acc.results,
     summary |-> Summary(acc, value)]

calculateStressTest(holdings, key, value) ==
    Outcome(ForEach(1, LoopStart, holdings, key, value), value)

\* useState's initial summaryResults.
InitialSummary ==
    [totalLoss |-> Zero, totalLossPercent |-> Zero, worstAsset |-> EmptyWorst,
     bestAsset |-> EmptyBest, finalValue |-> Zero]

----------------------------------------------------------------------------
(* The recovery timeline, rebuilt at every render *)

HorizonMonths == 60

\* Math.pow keeps this many units per 1: three decimals.
PowUnit == 10 * 10 * 10

\* Math.pow is computed to six decimals and kept to three.
PowFine == PowUnit * PowUnit

\* 1 + 0.08/12
GrowthBase == Add(One, Div(Fin(8, 100), Num(12)))

\* base^0, base^1, ..., base^60 in units of 1/PowFine, each rounded to nearest.
RECURSIVE PowSteps(_)
PowSteps(seq) ==
    IF Len(seq) > HorizonMonths THEN seq
    ELSE PowSteps(Append(seq,
            (seq[Len(seq)] * GrowthBase.n + GrowthBase.d \div 2) \div GrowthBase.d))

PowTable == PowSteps(<<PowFine>>)

\* Math.pow(1 + 0.08/12, months)
MathPow(months) ==
    Fin((PowTable[months + 1] + PowUnit \div 2) \div PowUnit, PowUnit)

\* summaryResults.finalValue * Math.pow(1 + 0.08/12, months)
RecoveryValue(finalValue, months) == Mul(finalValue, MathPow(months))

\* Recovered with the comparison turned around.
RecoveredBelow(recoveryValue, target) == Ge(target, recoveryValue)

\* recoveryValue >= portfolioValue
Recovered(recoveryValue, target) == Ge(recoveryValue, target)

\* recoveryData: entry months + 1 is the point of month `months`.
RecoveryData(finalValue, target) ==
    [i \in 1..(HorizonMonths + 1) |->
        LET recoveryValue == RecoveryValue(finalValue, i - 1)
        IN  [months |-> i - 1, value |-> recoveryValue,
             recovered |-> Recovered(recoveryValue, target)]]

\* findIndex from entry i on: the callback is tried on each entry in turn and
\* the index (from 0) of the first one it accepts is returned, -1 if none.
RECURSIVE FindIndexFrom(_, _)
FindIndexFrom(data, i) ==
    IF i > Len(data) THEN -1
    ELSE IF data[i].recovered THEN i - 1
    ELSE FindIndexFrom(data, i + 1)

\* findIndex returning the last index when the callback accepts no entry.
FindIndexLast(data) ==
    IF FindIndexFrom(data, 1) = -1 THEN Len(data) - 1
    ELSE FindIndexFrom(data, 1)

\* recoveryData.findIndex(d => d.recovered)
FindIndex(data) == FindIndexFrom(data, 1)

\* The recovery timeline of the current render.
recoveryData == RecoveryData(summaryResults.finalValue, portfolioValue)

----------------------------------------------------------------------------
(* parseFloat on the text of a number input *)

DigitChars == <<"0", "1", "2", "3", "4", "5", "6", "7", "8", "9">>

IsDigit(c) == \E i \in 1..10 : DigitChars[i] = c

DigitValue(c) == (CHOOSE i \in 1..10 : DigitChars[i] = c) - 1

\* How many characters of s, from position i on, are digits in a row.
RECURSIVE DigitRun(_, _)
DigitRun(s, i) ==
    IF i <= Len(s) /\ IsDigit(s[i]) THEN 1 + DigitRun(s, i + 1) ELSE 0

\* The integer written by the digits s[i], ..., s[i + len - 1], after acc.
RECURSIVE DigitsToInt(_, _, _, _)
DigitsToInt(s, i, len, acc) ==
    IF len = 0 THEN acc
    ELSE DigitsToInt(s, i + 1, len - 1, 10 * acc + DigitValue(s[i]))

RECURSIVE PowerOfTen(_)
PowerOfTen(e) == IF e = 0 THEN 1 ELSE 10 * PowerOfTen(e - 1)

\* parseFloat(text): an optional sign, digits, an optional fraction; NaN when
\* no digit is read (the empty text of a cleared or invalid number input).
\* A text is a sequence of characters; exponents are not read.
parseFloat(text) ==
    LET signed == Len(text) >= 1 /\ text[1] \in {"-", "+"}
        start == IF signed THEN 2 ELSE 1
        intLen == DigitRun(text, start)
        dot == start + intLen
        fracLen == IF dot <= Len(text) /\ text[dot] = "."
                   THEN DigitRun(text, dot + 1) ELSE 0
        intPart == DigitsToInt(text, start, intLen, 0)
        all == DigitsToInt(text, dot + 1, fracLen, intPart)
        magnitude == Fin(all, PowerOfTen(fracLen))
    IN  IF intLen = 0 /\ fracLen = 0 THEN NaN
        ELSE IF signed /\ text[1] = "-" THEN Neg(magnitude)
        ELSE magnitude

----------------------------------------------------------------------------
(* The component *)

\* Input events handled in one run of the component.
MaxChanges == 2

\* Texts typed into the portfolio value field.
ValueTexts ==
    { <<>>, <<"0">>, <<"-", "1", "0", "0", "0">>, <<"1", "0", "0", "0">> }

\* Texts typed into an allocation field.
AllocationTexts ==
    { <<>>, <<"0">>, <<"6", "0">>, <<"1", "2", ".", "5">>, <<"-", "1", "0">> }

Holding(asset, allocation) == [asset |-> asset, allocation |-> allocation]

\* useState's initial portfolio (volatility and beta are never read).
InitialPortfolio ==
    <<Holding("US Large Cap Equity", Num(40)),
      Holding("US Small Cap Equity", Num(10)),
      Holding("International Equity", Num(20)),
      Holding("Bonds", Num(25)),
      Holding("REITs", Num(5))>>

InitialPortfolioValue == 1000000

Init ==
    /\ portfolio = InitialPortfolio
    /\ portfolioValue = Num(InitialPortfolioValue)
    /\ selectedScenario = "2008_crisis"
    /\ stressResults = <<>>
    /\ summaryResults = InitialSummary
    /\ effectPending = TRUE
    /\ thrown = NoError
    /\ changes = 0

\* setStressResults(results); setSummaryResults({...}), which an exception
\* thrown in the loop never reaches.
SetResults(r) ==
    IF r.thrown # NoError
    THEN /\ thrown' = r.thrown
         /\ UNCHANGED <<stressResults, summaryResults>>
    ELSE /\ thrown' = NoError
         /\ stressResults' = r.results
         /\ summaryResults' = r.summary

\* The useEffect callback: calculateStressTest() on the current state, then
\* setStressResults and setSummaryResults unless it threw.
RunEffect ==
    /\ effectPending
    /\ thrown = NoError
    /\ SetResults(calculateStressTest(portfolio, selectedScenario,
                                      portfolioValue))
    /\ effectPending' = FALSE
    /\ UNCHANGED <<portfolio, portfolioValue, selectedScenario, changes>>

\* An input event is handled once the effects of the last render have run.
CanHandle == ~effectPending /\ thrown = NoError /\ changes < MaxChanges

\* onChange of the value field: setPortfolioValue(parseFloat(e.target.value)).
\* A state set to the value it has (Object.is) schedules nothing.
SetPortfolioValue ==
    \E text \in ValueTexts :
        /\ CanHandle
        /\ portfolioValue' = parseFloat(text)
        /\ effectPending' = (portfolioValue' # portfolioValue)
        /\ changes' = changes + 1
        /\ UNCHANGED <<portfolio, selectedScenario, stressResults,
                       summaryResults, thrown>>

\* onChange of the select: setSelectedScenario(e.target.value), the value of
\* one of the options, which are the catalog's keys.
SetSelectedScenario ==
    \E key \in ScenarioKeys :
        /\ CanHandle
        /\ selectedScenario' = key
        /\ effectPending' = (key # selectedScenario)
        /\ changes' = changes + 1
        /\ UNCHANGED <<portfolio, portfolioValue, stressResults,
                       summaryResults, thrown>>

\* handleAllocationChange writing into the portfolio array it has: the state
\* is set to the same object, so nothing is scheduled.
handleAllocationChangeInPlace ==
    \E index \in 1..Len(portfolio), text \in AllocationTexts :
        /\ CanHandle
        /\ portfolio' =
               [portfolio EXCEPT ![index].allocation = parseFloat(text)]
        /\ changes' = changes + 1
        /\ UNCHANGED <<portfolioValue, selectedScenario, stressResults,
                       summaryResults, thrown, effectPending>>

\* handleAllocationChange(index, newAllocation): the new array is a new
\* object, so the effect is always scheduled.
handleAllocationChange ==
    \E index \in 1..Len(portfolio), text \in AllocationTexts :
        /\ CanHandle
        /\ portfolio' =
               [portfolio EXCEPT ![index].allocation = parseFloat(text)]
        /\ effectPending' = TRUE
        /\ changes' = changes + 1
        /\ UNCHANGED <<portfolioValue, selectedScenario, stressResults,
                       summaryResults, thrown>>

Next ==
    \/ RunEffect
    \/ SetPortfolioValue
    \/ SetSelectedScenario
    \/ handleAllocationChange

Spec == Init /\ [][Next]_vars

----------------------------------------------------------------------------
(* calculateStressTest as a function of its inputs *)

\* Longest portfolio handed to calculateStressTest.
MaxLen == 2

EngineAssets ==
    {"US Large Cap Equity", "US Small Cap Equity", "Bonds", "Gold",
     "constructor"}

EngineAllocations == {NaN, Num(-10), Num(20), Num(25), Num(100)}

EngineValues == {NaN, Num(-1000), Zero, Num(1000)}

EngineKeys == ScenarioKeys \cup {"not_a_real_scenario"}

\* The portfolios of at most MaxLen holdings with distinct asset names.
EnginePortfolios ==
    UNION { { h \in [1..len -> [asset : EngineAssets,
                                allocation : EngineAllocations]] :
                \A i, j \in 1..len : i # j => h[i].asset # h[j].asset }
            : len \in 0..MaxLen }

InitEngine ==
    /\ portfolio \in EnginePortfolios
    /\ portfolioValue \in EngineValues
    /\ selectedScenario \in EngineKeys
    /\ stressResults = <<>>
    /\ summaryResults = InitialSummary
    /\ effectPending = TRUE
    /\ thrown = NoError
    /\ changes = 0

NextEngine == RunEffect

SpecEngine == InitEngine /\ [][NextEngine]_vars

----------------------------------------------------------------------------
(* Properties of calculateStressTest *)

\* calculateStressTest has returned and its results are stored: they are the
\* results for the portfolio, scenario and base value of the state.
Done == ~effectPending /\ thrown = NoError

\* The sum of contributionToLoss over the rows i, ..., Len(rows).
RECURSIVE SumContributions(_, _)
SumContributions(rows, i) ==
    IF i > Len(rows) THEN Zero
    ELSE Add(rows[i].contributionToLoss, SumContributions(rows, i + 1))

\* C1, as claimed, for the base values that are numbers: for every portfolio,
\* catalog scenario and numeric base value, the contributions to loss of the
\* stored rows sum to the summary's totalLossPercent (NaN counted as equal
\* to NaN).
C1_SumIsTotalPercent ==
    (Done /\ selectedScenario \in ScenarioKeys /\ IsFinite(portfolioValue)) =>
        SumContributions(stressResults, 1) = summaryResults.totalLossPercent

\* C2, as claimed: a call with a key that is not in the catalog ends with the
\* error UnknownScenarioKind: never without an error, never with another.
C2_UnknownKeyIsNamedError ==
    (~effectPending /\ selectedScenario \notin ScenarioKeys) =>
        thrown = "UnknownScenarioKind"

\* Every holding's asset has a negative factor in the selected scenario.
AllFactorsNegative ==
    /\ selectedScenario \in ScenarioKeys
    /\ portfolio # <<>>
    /\ \A i \in 1..Len(portfolio) :
        /\ HasFactor(selectedScenario, portfolio[i].asset)
        /\ Lt(FactorOf(selectedScenario, portfolio[i].asset), Zero)

\* C3, as claimed: with every factor negative, bestAsset is the empty
\* sentinel whatever the base value and the allocations.
C3_AllNegativeKeepsSentinel ==
    (Done /\ AllFactorsNegative) => summaryResults.bestAsset = EmptyBest

\* No holding is worth less than nothing: base value times allocation is not
\* negative.
NoNegativeHolding ==
    \A i \in 1..Len(portfolio) :
        ~Lt(Mul(portfolioValue, portfolio[i].allocation), Zero)

\* C3, amended: with every factor negative and no holding whose base value
\* times allocation is negative, bestAsset is the empty sentinel.
C3_AllNegativeNoShortKeepsSentinel ==
    (Done /\ AllFactorsNegative /\ NoNegativeHolding) =>
        summaryResults.bestAsset = EmptyBest

\* C3's case: two holdings that both lose money, and the sentinel is kept.
C3_Witness ==
    /\ Done /\ AllFactorsNegative /\ NoNegativeHolding
    /\ Len(stressResults) = 2
    /\ \A i \in 1..2 : Lt(stressResults[i].dollarChange, Zero)
    /\ summaryResults.bestAsset = EmptyBest

----------------------------------------------------------------------------
(* Properties of the recovery timeline *)

\* The recovered flag never goes back to false: false up to the first month
\* where it is true, true from then on.
FlagMonotone(data) ==
    \A i \in 1..Len(data), j \in 1..Len(data) :
        (i < j /\ data[i].recovered) => data[j].recovered

\* The projected value of each month is greater than that of the month before.
StrictlyIncreasing(data) ==
    \A i \in 1..(Len(data) - 1) : Lt(data[i].value, data[i + 1].value)

\* C4, as claimed, for the values that are numbers: the timeline built from
\* a computed final value and its base value has a monotone recovered flag
\* and strictly increasing values, whatever the two numbers are.
C4_RecoveryMonotone ==
    (Done /\ IsFinite(summaryResults.finalValue) /\ IsFinite(portfolioValue))
        => (FlagMonotone(recoveryData) /\ StrictlyIncreasing(recoveryData))

\* C4, amended: for every positive final value (and any target), the
\* recovered flag is monotone and the projected value strictly increasing.
C4_PositiveRecoveryMonotone ==
    Gt(summaryResults.finalValue, Zero) =>
        (FlagMonotone(recoveryData) /\ StrictlyIncreasing(recoveryData))

\* C4's case: a positive final value below the target at month 0 that has
\* recovered by month 60.
C4_Witness ==
    /\ Done
    /\ Gt(summaryResults.finalValue, Zero)
    /\ ~recoveryData[1].recovered
    /\ recoveryData[HorizonMonths + 1].recovered

\* C5: the months-to-recovery figure is the index of the first point whose
\* recovered flag is true, and it is no month of the horizon (it is -1) when
\* no point has recovered.
C5_MonthsToRecovery ==
    LET data == recoveryData
        figure == FindIndex(data)
    IN  IF \E i \in 1..Len(data) : data[i].recovered
        THEN /\ figure \in 0..HorizonMonths
             /\ data[figure + 1].recovered
             /\ data[figure + 1].months = figure
             /\ \A j \in 1..figure : ~data[j].recovered
        ELSE figure \notin 0..HorizonMonths

\* C5's case: recovery is reached at a month after the first, inside the
\* horizon, and that month is the figure.
C5_Witness ==
    /\ Done
    /\ FindIndex(recoveryData) \in 1..(HorizonMonths - 1)
    /\ recoveryData[FindIndex(recoveryData) + 1].recovered
    /\ ~recoveryData[FindIndex(recoveryData)].recovered

----------------------------------------------------------------------------
(* Properties of the inputs calculateStressTest accepts *)

\* The numbers of a result row and of the summary.
RowNumbers(row) ==
    {row.originalValue, row.stressedValue, row.dollarChange,
     row.contributionToLoss}

SummaryNumbers(summary) ==
    {summary.totalLoss, summary.totalLossPercent, summary.finalValue}

\* Every number stored by the last call, the copies of its inputs included.
StoredNumbers ==
    UNION { RowNumbers(stressResults[i]) \cup
                {stressResults[i].allocation, stressResults[i].percentChange}
            : i \in 1..Len(stressResults) }
    \cup SummaryNumbers(summaryResults)
    \cup {summaryResults.worstAsset.loss, summaryResults.bestAsset.gain}

AllocationsNumeric ==
    \A i \in 1..Len(portfolio) : IsFinite(portfolio[i].allocation)

\* C6, as claimed: with a base value that is zero or negative (and numeric
\* allocations), the call raises no error, every number of every row and of
\* the summary is a finite number, and a holding with a non-negative
\* allocation has an original value that is zero or negative.
C6_NonPositiveBaseIsWellDefined ==
    (/\ ~effectPending
     /\ IsFinite(portfolioValue) /\ ~Gt(portfolioValue, Zero)
     /\ AllocationsNumeric) =>
        /\ thrown = NoError
        /\ \A i \in 1..Len(stressResults) :
            /\ \A x \in RowNumbers(stressResults[i]) : IsFinite(x)
            /\ ~Lt(stressResults[i].allocation, Zero) =>
                   ~Gt(stressResults[i].originalValue, Zero)
        /\ \A x \in SummaryNumbers(summaryResults) : IsFinite(x)

\* The base value or an allocation is not a number.
NonNumericInput ==
    \/ IsNaN(portfolioValue)
    \/ \E i \in 1..Len(portfolio) : IsNaN(portfolio[i].allocation)

\* C7, as claimed: a call with a non-numeric base value or allocation ends
\* with the error InvalidInput, and it leaves no NaN in the stored results.
C7_NonNumericIsRejected ==
    (~effectPending /\ NonNumericInput) =>
        /\ thrown = "InvalidInput"
        /\ \A x \in StoredNumbers : ~IsNaN(x)

\* The result row of holding i when it is the only holding.
RowAlone(i) ==
    calculateStressTest(<<portfolio[i]>>, selectedScenario,
                        portfolioValue).results[1]

\* C8, as claimed, for numeric inputs: a holding whose asset is no key of the
\* selected scenario's factor map has dollarChange 0 and a stressedValue equal
\* to its originalValue, no error is raised, and the holdings that are keys
\* of the map have the rows they have alone.
C8_AbsentAssetPassesThrough ==
    (/\ ~effectPending
     /\ selectedScenario \in ScenarioKeys
     /\ IsFinite(portfolioValue) /\ AllocationsNumeric) =>
        /\ thrown = NoError
        /\ Len(stressResults) = Len(portfolio)
        /\ \A i \in 1..Len(stressResults) :
            IF HasFactor(selectedScenario, portfolio[i].asset)
            THEN stressResults[i] = RowAlone(i)
            ELSE /\ stressResults[i].dollarChange = Zero
                 /\ stressResults[i].stressedValue =
                        stressResults[i].originalValue

\* The rows with a negative dollarChange.
Losers == {i \in 1..Len(stressResults) : Lt(stressResults[i].dollarChange, Zero)}

\* C9: worstAsset is the holding with the most negative dollarChange, the
\* earliest of those tied for it; it is the empty sentinel when no holding
\* has a negative dollarChange.
C9_WorstIsEarliestMinimum ==
    (Done /\ selectedScenario \in ScenarioKeys) =>
        IF Losers = {} THEN summaryResults.worstAsset = EmptyWorst
        ELSE \E i \in Losers :
                /\ \A j \in Losers :
                       ~Lt(stressResults[j].dollarChange,
                           stressResults[i].dollarChange)
                /\ \A j \in Losers :
                       j < i => Gt(stressResults[j].dollarChange,
                                   stressResults[i].dollarChange)
                /\ summaryResults.worstAsset =
                       [name |-> stressResults[i].asset,
                        loss |-> stressResults[i].dollarChange]

\* C9's case: two holdings tied for the most negative dollarChange, and the
\* first of them is worstAsset.
C9_Witness ==
    /\ Done
    /\ Len(stressResults) = 2
    /\ Lt(stressResults[1].dollarChange, Zero)
    /\ stressResults[1].dollarChange = stressResults[2].dollarChange
    /\ summaryResults.worstAsset.name = stressResults[1].asset

\* C10, as claimed, for a positive base value: an empty portfolio yields no
\* error, no rows and a summary of zeros and sentinels, finalValue included.
C10_EmptyPortfolioAllZero ==
    (~effectPending /\ portfolio = <<>> /\ Gt(portfolioValue, Zero)) =>
        /\ thrown = NoError
        /\ stressResults = <<>>
        /\ summaryResults = InitialSummary

\* C10, amended: an empty portfolio yields no error, no rows, totalLoss 0,
\* both sentinels, a finalValue equal to the base value, and a
\* totalLossPercent of 0 for a base value that is a number other than 0
\* (NaN for the base value 0 and for one that is not a number).
C10_EmptyPortfolioKeepsBase ==
    (~effectPending /\ portfolio = <<>>) =>
        /\ thrown = NoError
        /\ stressResults = <<>>
        /\ summaryResults.totalLoss = Zero
        /\ summaryResults.worstAsset = EmptyWorst
        /\ summaryResults.bestAsset = EmptyBest
        /\ summaryResults.finalValue = portfolioValue
        /\ summaryResults.totalLossPercent =
               IF IsFinite(portfolioValue) /\ portfolioValue # Zero
               THEN Zero ELSE NaN

\* C10's case: the call has run on an empty portfolio with a positive base
\* value, which is the final value.
C10_Witness ==
    /\ ~effectPending /\ portfolio = <<>>
    /\ Gt(portfolioValue, Zero)
    /\ summaryResults.finalValue = portfolioValue
    /\ summaryResults.totalLossPercent = Zero

----------------------------------------------------------------------------
(* Properties of the component *)

\* The default inputs: the initial portfolio, base value and scenario.
DefaultInputs ==
    /\ portfolio = InitialPortfolio
    /\ portfolioValue = Num(InitialPortfolioValue)
    /\ selectedScenario = "2008_crisis"

\* The stored row of an asset (the first, if it is held more than once).
RowOf(asset) ==
    stressResults[CHOOSE i \in 1..Len(stressResults) :
                      stressResults[i].asset = asset]

\* C11: for the default portfolio, base value 1,000,000 and 2008_crisis the
\* stored results are US Large Cap originalValue 400,000, stressedValue
\* 252,000, dollarChange -148,000; Bonds dollarChange +13,000; totalLoss
\* -274,450; finalValue 725,550; worstAsset US Large Cap Equity; bestAsset
\* Bonds with gain 13,000.
C11_DefaultExample ==
    (~effectPending /\ DefaultInputs) =>
        /\ thrown = NoError
        /\ Len(stressResults) = 5
        /\ RowOf("US Large Cap Equity").originalValue = Num(400000)
        /\ RowOf("US Large Cap Equity").stressedValue = Num(252000)
        /\ RowOf("US Large Cap Equity").dollarChange = Num(-148000)
        /\ RowOf("Bonds").dollarChange = Num(13000)
        /\ summaryResults.totalLoss = Num(-274450)
        /\ summaryResults.finalValue = Num(725550)
        /\ summaryResults.worstAsset.name = "US Large Cap Equity"
        /\ summaryResults.bestAsset = [name |-> "Bonds", gain |-> Num(13000)]

\* C11's case: the first effect has run on the default inputs.
C11_Witness ==
    /\ ~effectPending /\ DefaultInputs
    /\ changes = 0
    /\ Len(stressResults) = 5
    /\ summaryResults.finalValue = Num(725550)

\* What calculateStressTest gives for the inputs of the state.
Current == calculateStressTest(portfolio, selectedScenario, portfolioValue)

\* C12: whatever the input changes were, once no effect is pending the
\* stored rows and summary are those of the computation on the current
\* portfolio, scenario and base value: no change is left without a
\* recompute.
C12_StoredIsCurrent ==
    ~effectPending =>
        /\ thrown = NoError
        /\ stressResults = Current.results
        /\ summaryResults = Current.summary

\* C12's case: two input changes have been handled, portfolio and base value
\* both differ from the initial ones, and the effect of the last has run.
C12_Witness ==
    /\ ~effectPending
    /\ changes >= 2
    /\ portfolio # InitialPortfolio
    /\ portfolioValue # Num(InitialPortfolioValue)
    /\ stressResults = Current.results
    /\ summaryResults = Current.summary

\* C13, as claimed: in every state that is rendered, the first one and those
\* with an effect pending included, the final value the recovery timeline is
\* built from is its target, the base value, plus the total dollar change
\* computed for that base value.
C13_TimelineFromOneRun ==
    /\ summaryResults.finalValue =
           Add(portfolioValue, Current.summary.totalLoss)
    /\ recoveryData = RecoveryData(Current.summary.finalValue, portfolioValue)

====
